---- MODULE Spec2Model ----
(***************************************************************************)
(* A state-machine model of the AI workplace monitoring pipeline:          *)
(*   modules/tracking.py         PeopleTracker                             *)
(*   modules/behaviour.py        analyse_behaviour                         *)
(*   modules/restricted_area.py  RestrictedAreaChecker                     *)
(*   modules/alert_logger.py     AlertPriority, AlertDeduplicator,         *)
(*                               AlertLogger                               *)
(* Each component has its own specification (SpecTracker, SpecBehaviour,   *)
(* SpecCrowd, SpecArea, SpecLogger); the variables of the other components *)
(* stay at their constructed values.                                       *)
(***************************************************************************)
EXTENDS Integers, Sequences, FiniteSets, TLC

VARIABLES
    \* ---- PeopleTracker (tracking.py) ----
    next_id,          \* self.next_id
    tracks,           \* self.tracks: the dict's values in insertion order
    max_missing,      \* self.max_missing (constructor argument)
    tracked_objects,  \* the list returned by the last update()
    tclock,           \* time.time() as read by the last update()
    assigned_ids,     \* observer: every id update() has returned so far
    last_update,      \* observer: the argument of the last update() and its kind
                      \* and the exception it raised ("" when it returned)
    \* ---- analyse_behaviour (behaviour.py) ----
    person_history,   \* the module-level dict person_history
    bclock,           \* time.time() as read by the last analyse_behaviour()
    tracked_people,   \* the argument of the last analyse_behaviour()
    b_alerts,         \* the list returned by the last analyse_behaviour()
    calls,            \* observer: number of analyse_behaviour() calls made
    seen_ids,         \* observer: every id some analyse_behaviour() call got
    idle_emitted,     \* observer: per id present in every call since, the
                      \* time and number of its IDLE alerts
    \* ---- RestrictedAreaChecker (restricted_area.py) ----
    restricted_areas, \* self.restricted_areas
    area_people,      \* the argument of the last check_restricted_area()
    area_alerts,      \* the list returned by the last check_restricted_area()
    \* ---- AlertLogger, AlertDeduplicator (alert_logger.py) ----
    alert_queue,      \* self.alert_queue: the items in FIFO order
    running,          \* self.running
    workers,          \* the threads start() has created: each one's position
                      \* in _process_alerts ("loop", "get") or "exited"
    worker_thread,    \* self.worker_thread: index into workers, 0 for None
    alert_cache,      \* self.deduplicator.alert_cache
    stats,            \* self.stats
    csv_rows,         \* the rows of the CSV file after its header
    lclock,           \* time.time()
    caller,           \* the calling thread: "idle", or inside stop()
    logged,           \* observer: number of log_alert() calls made
    streak,           \* observer: per (type, person id), the calls of
                      \* should_process_alert each less than a window after
                      \* the one before
    last_dedup,       \* observer: the last should_process_alert call
    log_output,       \* the records the module's logger has emitted, counted
                      \* per level: [warnings, errors]
    undrained,        \* observer: items that were in the queue when stop()
                      \* was last called and have not been dequeued
    \* ---- main (main.py) ----
    main_pc,          \* the step of the frame loop main() is about to take
    main_error        \* the exception that ended main() ("" while it runs)

trackerVars == <<next_id, tracks, max_missing, tracked_objects, tclock, assigned_ids,
                 last_update>>
behaviourVars == <<person_history, bclock, tracked_people, b_alerts, calls, seen_ids,
                   idle_emitted>>
areaVars == <<restricted_areas, area_people, area_alerts>>
loggerVars == <<alert_queue, running, workers, worker_thread, alert_cache, stats,
                csv_rows, lclock, caller, logged, streak, last_dedup, log_output,
                undrained>>
mainVars == <<main_pc, main_error>>
vars == <<trackerVars, behaviourVars, areaVars, loggerVars, mainVars>>

(***************************************************************************)
(* Bounds of the tracker model.                                            *)
(***************************************************************************)
MaxFrames == 4        \* number of update() calls explored
MaxDets == 2          \* detections per frame
MaxMissingArg == 2    \* largest max_missing the constructor is given

(***************************************************************************)
(* PeopleTracker                                                           *)
(***************************************************************************)
\* iou_threshold = 0.3 (tracking.py:6, main.py:18) as the fraction 3/10
IouThresholdNum == 3
IouThresholdDen == 10

\* Bounding boxes <<x1, y1, x2, y2>> the detector may report.  BoxA/BoxB and
\* BoxB/BoxE overlap above the threshold (IOU 1/3 and 3/5), BoxA/BoxE below
\* it (IOU 1/7).
BoxA == <<0, 0, 4, 4>>
BoxB == <<2, 0, 6, 4>>
BoxE == <<3, 0, 7, 4>>
\* BoxG overlaps BoxA exactly as much as BoxB does (IOU 1/3) and BoxB below
\* the threshold (IOU 1/7); BoxZ has no area, so its union with itself is 0.
BoxG == <<0, 2, 4, 6>>
BoxZ == <<5, 5, 5, 5>>

\* detector output: {"bbox": ..., "confidence": ...} (confidence in percent)
Detections ==
    { [bbox |-> BoxA, confidence |-> 90], [bbox |-> BoxB, confidence |-> 80],
      [bbox |-> BoxE, confidence |-> 70] }

\* detector output with equal scores against a track and with an empty box
MatchingDetections ==
    { [bbox |-> BoxA, confidence |-> 90], [bbox |-> BoxB, confidence |-> 80],
      [bbox |-> BoxG, confidence |-> 70], [bbox |-> BoxZ, confidence |-> 60] }

MatchingLists == UNION { [1..k -> MatchingDetections] : k \in 0..MaxDets }

\* every detection list of length 0..MaxDets
DetectionLists == UNION { [1..k -> Detections] : k \in 0..MaxDets }

Max(a, b) == IF a >= b THEN a ELSE b
Min(a, b) == IF a <= b THEN a ELSE b

\* _iou: the score as the fraction <<inter_area, union>>; <<0, 1>> is the 0
\* returned for an empty union.
Iou(boxA, boxB) ==
    LET xA == Max(boxA[1], boxB[1])
        yA == Max(boxA[2], boxB[2])
        xB == Min(boxA[3], boxB[3])
        yB == Min(boxA[4], boxB[4])
        inter_area == Max(0, xB - xA) * Max(0, yB - yA)
        boxA_area == (boxA[3] - boxA[1]) * (boxA[4] - boxA[2])
        boxB_area == (boxB[3] - boxB[1]) * (boxB[4] - boxB[2])
        union == boxA_area + boxB_area - inter_area
    IN  IF union = 0 THEN <<0, 1>> ELSE <<inter_area, union>>

\* p > q for fractions with positive denominators
FracGreater(p, q) == p[1] * q[2] > q[1] * p[2]

\* _center: int((x1 + x2) / 2), int((y1 + y2) / 2) on non-negative pixels
Center(bbox) == <<(bbox[1] + bbox[3]) \div 2, (bbox[2] + bbox[4]) \div 2>>

\* The inner loop of update() (lines 69-81) from detection index i on:
\* <<best_iou, best_det_index>>.  Detection indexes are 1-based here and
\* best_det_index = 0 stands for Python's -1.
RECURSIVE BestDetectionLastOnTie(_, _, _, _, _, _)
BestDetectionLastOnTie(bbox, dets, matched_ids, i, best_iou, best_det_index) ==
    IF i > Len(dets) THEN <<best_iou, best_det_index>>
    ELSE IF i \in matched_ids
         THEN BestDetectionLastOnTie(bbox, dets, matched_ids, i + 1, best_iou, best_det_index)
         ELSE LET iou_score == Iou(bbox, dets[i].bbox)
              IN  IF ~FracGreater(best_iou, iou_score)
                  THEN BestDetectionLastOnTie(bbox, dets, matched_ids, i + 1, iou_score, i)
                  ELSE BestDetectionLastOnTie(bbox, dets, matched_ids, i + 1, best_iou, best_det_index)

RECURSIVE BestDetection(_, _, _, _, _, _)
BestDetection(bbox, dets, matched_ids, i, best_iou, best_det_index) ==
    IF i > Len(dets) THEN <<best_iou, best_det_index>>
    ELSE IF i \in matched_ids
         THEN BestDetection(bbox, dets, matched_ids, i + 1, best_iou, best_det_index)
         ELSE LET iou_score == Iou(bbox, dets[i].bbox)
              IN  IF FracGreater(iou_score, best_iou)
                  THEN BestDetection(bbox, dets, matched_ids, i + 1, iou_score, i)
                  ELSE BestDetection(bbox, dets, matched_ids, i + 1, best_iou, best_det_index)

\* line 84: best_iou > self.iou_threshold and best_det_index != -1
MatchAccepted(best_iou, best_det_index) ==
    /\ FracGreater(best_iou, <<IouThresholdNum, IouThresholdDen>>)
    /\ best_det_index # 0

\* lines 89-96 and 117-124: the track built from a detection
TrackFrom(id, det, current_time) ==
    [ id |-> id, bbox |-> det.bbox, confidence |-> det.confidence,
      center |-> Center(det.bbox), timestamp |-> current_time, missing |-> 0 ]

KeepMissingStrict(track_data, mm) == track_data.missing < mm

\* line 104: an unmatched track stays while missing <= max_missing
KeepMissing(track_data, mm) == track_data.missing <= mm

\* The loop over self.tracks (lines 67-105) from position k on:
\* [updated_tracks, matched_ids].
RECURSIVE MatchTracks(_, _, _, _, _, _, _)
MatchTracks(trks, k, dets, current_time, mm, updated_tracks, matched_ids) ==
    IF k > Len(trks)
    THEN [updated_tracks |-> updated_tracks, matched_ids |-> matched_ids]
    ELSE LET track_data == trks[k]
             best == BestDetection(track_data.bbox, dets, matched_ids, 1, <<0, 1>>, 0)
         IN  IF MatchAccepted(best[1], best[2])
             THEN MatchTracks(trks, k + 1, dets, current_time, mm,
                      Append(updated_tracks, TrackFrom(track_data.id, dets[best[2]], current_time)),
                      matched_ids \cup {best[2]})
             ELSE LET aged == [track_data EXCEPT !.missing = @ + 1]
                  IN  MatchTracks(trks, k + 1, dets, current_time, mm,
                          IF KeepMissing(aged, mm)
                          THEN Append(updated_tracks, aged) ELSE updated_tracks,
                          matched_ids)

NextIdStuck(n) == n

\* line 126: self.next_id += 1
NextIdAfterNew(n) == n + 1

RECURSIVE AddNewTracksForAll(_, _, _, _, _, _)
AddNewTracksForAll(dets, i, matched_ids, current_time, updated_tracks, nid) ==
    IF i > Len(dets) THEN [updated_tracks |-> updated_tracks, next_id |-> nid]
    ELSE AddNewTracksForAll(dets, i + 1, matched_ids, current_time,
             Append(updated_tracks, TrackFrom(nid, dets[i], current_time)),
             NextIdAfterNew(nid))

\* The loop over the detections (lines 110-126) from index i on:
\* [updated_tracks, next_id].
RECURSIVE AddNewTracks(_, _, _, _, _, _)
AddNewTracks(dets, i, matched_ids, current_time, updated_tracks, nid) ==
    IF i > Len(dets) THEN [updated_tracks |-> updated_tracks, next_id |-> nid]
    ELSE IF i \in matched_ids
         THEN AddNewTracks(dets, i + 1, matched_ids, current_time, updated_tracks, nid)
         ELSE AddNewTracks(dets, i + 1, matched_ids, current_time,
                  Append(updated_tracks, TrackFrom(nid, dets[i], current_time)),
                  NextIdAfterNew(nid))

\* lines 134-146: the output format (the track without its missing counter)
OutputOf(track) ==
    [ id |-> track.id, bbox |-> track.bbox, confidence |-> track.confidence,
      center |-> track.center, timestamp |-> track.timestamp ]

IdsOf(trks) == { trks[k].id : k \in 1..Len(trks) }

OutputList(trks) == [k \in 1..Len(trks) |-> OutputOf(trks[k])]

\* PeopleTracker.__init__
TrackerInit(mm) ==
    /\ next_id = 1
    /\ tracks = <<>>
    /\ max_missing = mm
    /\ tracked_objects = <<>>
    /\ tclock = 0
    /\ assigned_ids = {}
    /\ last_update = [input |-> "", raised |-> "", detections |-> <<>>]

\* PeopleTracker.update(dets), the clock having advanced by one tick
Update(dets) ==
    /\ tclock < MaxFrames
    /\ \E current_time \in {tclock + 1} :
       \E m \in {MatchTracks(tracks, 1, dets, current_time, max_missing, <<>>, {})} :
       \E a \in {AddNewTracks(dets, 1, m.matched_ids, current_time, m.updated_tracks, next_id)} :
           /\ tclock' = current_time
           /\ tracks' = a.updated_tracks
           /\ next_id' = a.next_id
           /\ tracked_objects' = OutputList(a.updated_tracks)
           /\ assigned_ids' = assigned_ids \cup IdsOf(a.updated_tracks)
    /\ last_update' = [input |-> IF dets = <<>> THEN "empty" ELSE "list", raised |-> "",
                       detections |-> dets]
    /\ UNCHANGED max_missing

\* arguments of update() that are not a list of {bbox, confidence} dicts:
\* None ("none"), and a list whose entry has no "bbox" ("no_bbox")
MalformedDetections == {"none", "no_bbox"}

\* line 62, det_boxes = [det["bbox"] for det in detections]: the exception
\* the comprehension raises on such an argument
DetBoxesError(detections) ==
    IF detections = "none" THEN "TypeError" ELSE "KeyError"

\* update() on such an argument: line 62 raises before any track is touched
\* and nothing in update catches it
UpdateMalformed(detections) ==
    /\ tclock < MaxFrames
    /\ tclock' = tclock + 1
    /\ last_update' = [input |-> "malformed", raised |-> DetBoxesError(detections),
                       detections |-> <<>>]
    /\ UNCHANGED <<next_id, tracks, max_missing, tracked_objects, assigned_ids>>

(***************************************************************************)
(* analyse_behaviour                                                       *)
(***************************************************************************)
OBSERVATION_TIME == 60
IDLE_TIME_THRESHOLD == 120
SUSPICIOUS_TIME_THRESHOLD == 180
MOVEMENT_THRESHOLD == 5
CROWD_DISTANCE_THRESHOLD == 50
CROWD_COUNT_THRESHOLD == 3
ALERT_COOLDOWN == 10

(***************************************************************************)
(* Bounds of the behaviour model.                                          *)
(***************************************************************************)
StartClock == 1000     \* time.time() when the process starts
MaxElapsed == 200      \* seconds of wall-clock time explored
MaxCrowdPeople == 3    \* people per call in SpecCrowd
MaxCrowdCalls == 1     \* analyse_behaviour() calls explored in SpecCrowd

\* seconds between two analyse_behaviour() calls
Deltas == {10, 60}

\* ids of the people handed to analyse_behaviour in SpecBehaviour
BehaviourIds == {1}

\* Centers of tracked people.  CenterB is 5 px from CenterA (not a movement),
\* CenterC is 50 px from CenterA (not within the crowd distance) and less
\* than 50 px from CenterB and CenterD; CenterD is far from CenterA, CenterB.
CenterA == <<0, 0>>
CenterB == <<3, 4>>
CenterC == <<50, 0>>
CenterD == <<99, 0>>
CenterF == <<6, 8>>

\* distance(p1, p2) ** 2; math.sqrt is exact enough on these integers that
\* sqrt(d2) > t iff d2 > t * t, and likewise for <
Distance2(p1, p2) ==
    (p1[1] - p2[1]) * (p1[1] - p2[1]) + (p1[2] - p2[2]) * (p1[2] - p2[2])

\* line 69: move_dist > MOVEMENT_THRESHOLD
HasMovedOrEqual(center, prev_pos) ==
    Distance2(center, prev_pos) >= MOVEMENT_THRESHOLD * MOVEMENT_THRESHOLD

HasMoved(center, prev_pos) ==
    Distance2(center, prev_pos) > MOVEMENT_THRESHOLD * MOVEMENT_THRESHOLD

\* line 125: distance(c1, c2) < CROWD_DISTANCE_THRESHOLD
IsClose(c1, c2) ==
    Distance2(c1, c2) < CROWD_DISTANCE_THRESHOLD * CROWD_DISTANCE_THRESHOLD

\* dict.get(key, default)
Get(d, key, default) == IF key \in DOMAIN d THEN d[key] ELSE default

\* d[key] = value on a dict
Put(d, key, value) ==
    [k \in DOMAIN d \cup {key} |-> IF k = key THEN value ELSE d[k]]

CooldownElapsedOrEqual(current_time, last_alert) ==
    current_time - last_alert >= ALERT_COOLDOWN

\* lines 89 and 105: current_time - last_alert > ALERT_COOLDOWN
CooldownElapsed(current_time, last_alert) ==
    current_time - last_alert > ALERT_COOLDOWN

\* lines 85-96: the IDLE check for one person: [history, alerts]
IdleCheck(pid, idle_time, current_time, history, alerts) ==
    IF /\ idle_time >= IDLE_TIME_THRESHOLD
       /\ CooldownElapsed(current_time, Get(history.last_alert_time, "IDLE", 0))
    THEN [ history |-> [history EXCEPT !.last_alert_time = Put(@, "IDLE", current_time)],
           alerts |-> Append(alerts, [type |-> "IDLE", person_id |-> pid,
                                      duration |-> idle_time]) ]
    ELSE [ history |-> history, alerts |-> alerts ]

\* lines 101-112: the SUSPICIOUS_STANDING check for one person
SuspiciousCheck(pid, total_time, current_time, history, alerts) ==
    IF /\ total_time >= SUSPICIOUS_TIME_THRESHOLD
       /\ CooldownElapsed(current_time,
                          Get(history.last_alert_time, "SUSPICIOUS_STANDING", 0))
    THEN [ history |-> [history EXCEPT
                          !.last_alert_time = Put(@, "SUSPICIOUS_STANDING", current_time)],
           alerts |-> Append(alerts, [type |-> "SUSPICIOUS_STANDING", person_id |-> pid,
                                      duration |-> total_time]) ]
    ELSE [ history |-> history, alerts |-> alerts ]

\* lines 61-112: one known person: [history, alerts]
TotalTimeSinceEpoch(timestamp, first_seen) == timestamp

\* line 74: total_time = timestamp - history["first_seen"]
TotalTime(timestamp, first_seen) == timestamp - first_seen

KnownPerson(person, current_time, history0, alerts) ==
    LET moved == HasMoved(person.center, history0.last_position)
        history == IF moved
                   THEN [history0 EXCEPT !.last_move_time = person.timestamp,
                                         !.last_position = person.center]
                   ELSE history0
        idle_time == person.timestamp - history.last_move_time
        total_time == TotalTime(person.timestamp, history.first_seen)
    IN  IF total_time < OBSERVATION_TIME
        THEN [ history |-> history, alerts |-> alerts ]
        ELSE LET i == IdleCheck(person.id, idle_time, current_time, history, alerts)
             IN  SuspiciousCheck(person.id, total_time, current_time, i.history, i.alerts)

\* lines 52-59: the history entry of a person seen for the first time
NewHistory(person) ==
    [ last_position |-> person.center, last_move_time |-> person.timestamp,
      first_seen |-> person.timestamp, last_alert_time |-> <<>> ]

\* The loop over tracked_people (lines 41-112) from position i on:
\* [person_history, alerts].
RECURSIVE ProcessPeople(_, _, _, _, _)
ProcessPeople(people, i, current_time, history, alerts) ==
    IF i > Len(people) THEN [ person_history |-> history, alerts |-> alerts ]
    ELSE LET person == people[i]
             pid == person.id
         IN  IF pid \notin DOMAIN history
             THEN ProcessPeople(people, i + 1, current_time,
                      Put(history, pid, NewHistory(person)), alerts)
             ELSE LET r == KnownPerson(person, current_time, history[pid], alerts)
                  IN  ProcessPeople(people, i + 1, current_time,
                          Put(history, pid, r.history), r.alerts)

\* lines 117-127: the ids of the people in at least one close pair
CrowdPeople(people) ==
    UNION { {people[i].id, people[j].id} :
              <<i, j>> \in { p \in (1..Len(people)) \X (1..Len(people)) :
                               /\ p[1] < p[2]
                               /\ IsClose(people[p[1]].center, people[p[2]].center) } }

ClosePairCount(people) ==
    Cardinality({ p \in (1..Len(people)) \X (1..Len(people)) :
                    /\ p[1] < p[2]
                    /\ IsClose(people[p[1]].center, people[p[2]].center) })

\* lines 129 and 132: len(crowd_people)
CrowdCount(people) == Cardinality(CrowdPeople(people))

\* lines 129-133: the alerts with the crowd alert appended
CrowdCheck(people, alerts) ==
    IF CrowdCount(people) >= CROWD_COUNT_THRESHOLD
    THEN Append(alerts, [type |-> "CROWD_DETECTED", count |-> CrowdCount(people)])
    ELSE alerts

PeopleIds(people) == { people[i].id : i \in 1..Len(people) }

\* lines 32-34: the history without the ids absent from this call
RemoveNobody(history, active_ids) == history

RemoveDisappeared(history, active_ids) ==
    [pid \in DOMAIN history \cap active_ids |-> history[pid]]

IdleAlertsFor(alerts, pid) ==
    { k \in 1..Len(alerts) : alerts[k].type = "IDLE" /\ alerts[k].person_id = pid }

\* the observer's record after a call: ids absent from the call are
\* forgotten, an id that got an IDLE alert is stamped with the call's time
IdleEmittedAfter(people, alerts, current_time) ==
    [pid \in { q \in PeopleIds(people) :
                 q \in DOMAIN idle_emitted \/ IdleAlertsFor(alerts, q) # {} } |->
        IF IdleAlertsFor(alerts, pid) # {}
        THEN [time |-> current_time,
              n |-> IF pid \in DOMAIN idle_emitted THEN idle_emitted[pid].n + 1 ELSE 1]
        ELSE idle_emitted[pid]]

\* module import: person_history = {}
BehaviourInit ==
    /\ person_history = <<>>
    /\ bclock = StartClock
    /\ tracked_people = <<>>
    /\ b_alerts = <<>>
    /\ calls = 0
    /\ seen_ids = {}
    /\ idle_emitted = <<>>

\* analyse_behaviour(people) called when time.time() is current_time
AnalyseBehaviour(people, current_time) ==
    \E r \in {ProcessPeople(people, 1, current_time,
                   RemoveDisappeared(person_history, PeopleIds(people)), <<>>)} :
    \E alerts \in {CrowdCheck(people, r.alerts)} :
        /\ person_history' = r.person_history
        /\ bclock' = current_time
        /\ tracked_people' = people
        /\ b_alerts' = alerts
        /\ calls' = calls + 1
        /\ seen_ids' = seen_ids \cup PeopleIds(people)
        /\ idle_emitted' = IdleEmittedAfter(people, alerts, current_time)

\* The lists of people with the ids `ids` in ascending order (the tracker's
\* order), each at one of `centers` with one of the timestamps `stamps`.
RECURSIVE PeopleLists(_, _, _)
PeopleLists(ids, centers, stamps) ==
    IF ids = {} THEN { <<>> }
    ELSE LET last == CHOOSE m \in ids : \A n \in ids : n <= m
             rest == PeopleLists(ids \ {last}, centers, stamps)
         IN  rest \cup
             { Append(l, [id |-> last, center |-> c, timestamp |-> t]) :
                 l \in rest, c \in centers, t \in stamps }

(***************************************************************************)
(* RestrictedAreaChecker                                                   *)
(***************************************************************************)
MaxAreaPeople == 2     \* bound: people per check_restricted_area() call

\* frame.shape[:2] = <<height, width>> of the first frame
FrameShapes == { <<4, 12>>, <<4, 10>>, <<3, 9>> }

\* centers of the people handed to the checker
AreaCenters == { <<2, 1>>, <<3, 2>>, <<8, 2>>, <<9, 3>> }

\* np.array([... width * f ...], dtype=np.int32) with f = pct / 100: the
\* product truncated to an integer
Int32Of(width, pct) == (width * pct) \div 100

\* _create_default_areas
CreateDefaultAreas(frame_shape) ==
    LET frame_height == frame_shape[1]
        frame_width == frame_shape[2]
    IN  << [ name |-> "Server Room",
             points |-> << <<0, 0>>, <<Int32Of(frame_width, 33), 0>>,
                           <<Int32Of(frame_width, 33), frame_height>>,
                           <<0, frame_height>> >>,
             max_people |-> 0 ],
           [ name |-> "Equipment Zone",
             points |-> << <<Int32Of(frame_width, 67), 0>>, <<frame_width, 0>>,
                           <<frame_width, frame_height>>,
                           <<Int32Of(frame_width, 67), frame_height>> >>,
             max_people |-> 1 ] >>

\* the point lies on the segment from a to b
OnSegment(point, a, b) ==
    /\ (b[1] - a[1]) * (point[2] - a[2]) = (b[2] - a[2]) * (point[1] - a[1])
    /\ Min(a[1], b[1]) <= point[1] /\ point[1] <= Max(a[1], b[1])
    /\ Min(a[2], b[2]) <= point[2] /\ point[2] <= Max(a[2], b[2])

\* the horizontal ray from the point to the right crosses the edge a-b
RayCrosses(point, a, b) ==
    /\ (a[2] > point[2]) # (b[2] > point[2])
    /\ IF b[2] > a[2]
       THEN (point[1] - a[1]) * (b[2] - a[2]) < (point[2] - a[2]) * (b[1] - a[1])
       ELSE (point[1] - a[1]) * (b[2] - a[2]) > (point[2] - a[2]) * (b[1] - a[1])

\* cv2.pointPolygonTest(polygon, point, False): 1 inside, 0 on an edge,
\* -1 outside
PointPolygonTest(polygon, point) ==
    LET n == Len(polygon)
        succ(k) == IF k = n THEN 1 ELSE k + 1
    IN  IF \E k \in 1..n : OnSegment(point, polygon[k], polygon[succ(k)]) THEN 0
        ELSE IF Cardinality({ k \in 1..n :
                    RayCrosses(point, polygon[k], polygon[succ(k)]) }) % 2 = 1
             THEN 1 ELSE -1

\* point_in_polygon
PointInPolygon(point, polygon_points) == PointPolygonTest(polygon_points, point) >= 0

\* line 69: len(people_in_area) > max_allowed
OverLimit(n, max_allowed) == n > max_allowed

\* lines 60-67: the ids of the people inside the area, in input order
RECURSIVE PeopleInArea(_, _, _)
PeopleInArea(people, i, area_points) ==
    IF i > Len(people) THEN <<>>
    ELSE IF PointInPolygon(people[i].center, area_points)
         THEN <<people[i].id>> \o PeopleInArea(people, i + 1, area_points)
         ELSE PeopleInArea(people, i + 1, area_points)

BreachAlertLast(people_in_area, area_name) ==
    [ type |-> "RESTRICTED_AREA_BREACH", person_id |-> people_in_area[Len(people_in_area)],
      details |-> ToString(Len(people_in_area)) \o " people in " \o area_name ]

\* lines 70-74
BreachAlert(people_in_area, area_name) ==
    [ type |-> "RESTRICTED_AREA_BREACH", person_id |-> people_in_area[1],
      details |-> ToString(Len(people_in_area)) \o " people in " \o area_name ]

\* The loop over self.restricted_areas (lines 55-74) from position k on
RECURSIVE CheckAreas(_, _, _)
CheckAreas(areas, k, people) ==
    IF k > Len(areas) THEN <<>>
    ELSE LET people_in_area == PeopleInArea(people, 1, areas[k].points)
         IN  ( IF OverLimit(Len(people_in_area), areas[k].max_people)
               THEN <<BreachAlert(people_in_area, areas[k].name)>> ELSE <<>> )
             \o CheckAreas(areas, k + 1, people)

\* RestrictedAreaChecker.__init__
AreaInit(frame_shape) ==
    /\ restricted_areas = CreateDefaultAreas(frame_shape)
    /\ area_people = <<>>
    /\ area_alerts = <<>>

\* check_restricted_area(people)
CheckRestrictedArea(people) ==
    /\ area_people' = people
    /\ area_alerts' = CheckAreas(restricted_areas, 1, people)
    /\ UNCHANGED restricted_areas

\* the lists of up to n people with distinct ids in 1..n, in any order
RECURSIVE AreaPeopleLists(_, _)
AreaPeopleLists(n, len) ==
    IF len = 0 THEN { <<>> }
    ELSE LET shorter == AreaPeopleLists(n, len - 1)
         IN  shorter \cup
             { Append(l, [id |-> i, center |-> c]) :
                 l \in { x \in shorter : Len(x) = len - 1 },
                 i \in 1..n, c \in AreaCenters }

DistinctIds(people) ==
    \A j, k \in 1..Len(people) : people[j].id = people[k].id => j = k

\* the arguments check_restricted_area() is called with
AreaInputs == { l \in AreaPeopleLists(MaxAreaPeople, MaxAreaPeople) : DistinctIds(l) }

(***************************************************************************)
(* AlertPriority, AlertDeduplicator, AlertLogger                           *)
(***************************************************************************)
(* Bounds of the logger model.                                             *)
QueueMaxSize == 1      \* queue.Queue(maxsize=100), scaled down
MaxLogged == 2         \* log_alert() calls explored in SpecLogger
MaxStarts == 1         \* worker threads start() may create
MaxProcessed == 4      \* alerts the worker handles in SpecWorker
MaxLogElapsed == 75    \* seconds of wall-clock time explored

\* seconds the clock advances in one step
LogTick == 15

\* AlertDeduplicator.__init__(time_window=30)
TIME_WINDOW == 30

\* AlertPriority.HIGH, MEDIUM, LOW
HIGH == "HIGH_PRIORITY"
MEDIUM == "MEDIUM_PRIORITY"
LOW == "LOW_PRIORITY"

PRIORITY_MAP ==
    [ CROWD_DETECTED |-> HIGH, SUSPICIOUS_STANDING |-> MEDIUM, IDLE |-> LOW,
      RESTRICTED_AREA_BREACH |-> HIGH, UNAUTHORIZED_ACCESS |-> HIGH,
      VIOLENCE_DETECTED |-> HIGH, WEAPON_DETECTED |-> HIGH, LOITERING |-> MEDIUM,
      UNUSUAL_BEHAVIOR |-> MEDIUM, NORMAL_ACTIVITY |-> LOW ]

\* AlertPriority.get_priority
GetPriority(alert_type) == Get(PRIORITY_MAP, alert_type, MEDIUM)

\* the alerts handed to log_alert
AlertIdle1 == [type |-> "IDLE", person_id |-> 1, duration |-> 55]
AlertCrowd4 == [type |-> "CROWD_DETECTED", count |-> 4]
AlertCrowd5 == [type |-> "CROWD_DETECTED", count |-> 5]
AlertBreach1 == [type |-> "RESTRICTED_AREA_BREACH", person_id |-> 1,
                 details |-> "1 people in Server Room"]
AlertUnknown == [type |-> "FIRE", person_id |-> 2]
Alerts == {AlertIdle1, AlertCrowd4, AlertCrowd5, AlertBreach1, AlertUnknown}

\* the sentinel None that stop() enqueues
NoneItem == [none |-> TRUE]

\* json.dumps of alert.get(key, "")
JsonOf(alert, key) == IF key \in DOMAIN alert THEN ToString(alert[key]) ELSE "\"\""

GenerateHashWithCount(alert) ==
    "{\"count\": " \o JsonOf(alert, "count") \o ", \"person_id\": "
        \o JsonOf(alert, "person_id") \o ", \"type\": " \o JsonOf(alert, "type") \o "}"

\* _generate_hash: the JSON text that is hashed (md5 taken as injective)
GenerateHash(alert) ==
    "{\"person_id\": " \o JsonOf(alert, "person_id") \o ", \"type\": "
        \o JsonOf(alert, "type") \o "}"

\* lines 61-64: the cache without the entries older than twice the window
CleanOldEntries(cache, current_time) ==
    [k \in { h \in DOMAIN cache : ~(current_time - cache[h][1] > TIME_WINDOW * 2) } |->
        cache[k]]

InWindowDouble(current_time, last_time) == current_time - last_time < TIME_WINDOW * 2

\* line 68: the previous occurrence is less than a window old
InWindow(current_time, last_time) == current_time - last_time < TIME_WINDOW

\* line 71: the literal dict the admission quota is looked up in
MaxCountTable == [HIGH |-> 5, MEDIUM |-> 3, LOW |-> 1]

\* should_process_alert at time current_time:
\* [cache, raised, ok, count]; raised is the KeyError of a dict lookup
ShouldProcessAlert(cache0, alert, current_time) ==
    LET alert_hash == GenerateHash(alert)
        cache == CleanOldEntries(cache0, current_time)
    IN  IF alert_hash \in DOMAIN cache
        THEN LET last_time == cache[alert_hash][1]
                 count == cache[alert_hash][2]
             IN  IF InWindow(current_time, last_time)
                 THEN LET bumped == Put(cache, alert_hash, <<current_time, count + 1>>)
                          priority == GetPriority(Get(alert, "type", ""))
                      IN  IF priority \in DOMAIN MaxCountTable
                          THEN [ cache |-> bumped, raised |-> FALSE,
                                 ok |-> count + 1 <= MaxCountTable[priority],
                                 count |-> count + 1 ]
                          ELSE [ cache |-> bumped, raised |-> TRUE,
                                 ok |-> FALSE, count |-> 0 ]
                 ELSE [ cache |-> Put(cache, alert_hash, <<current_time, 1>>),
                        raised |-> FALSE, ok |-> TRUE, count |-> 1 ]
        ELSE [ cache |-> Put(cache, alert_hash, <<current_time, 1>>),
               raised |-> FALSE, ok |-> TRUE, count |-> 1 ]

\* str.lower() on the priority names
Lower(priority) ==
    CASE priority = "HIGH_PRIORITY" -> "high_priority"
      [] priority = "MEDIUM_PRIORITY" -> "medium_priority"
      [] priority = "LOW_PRIORITY" -> "low_priority"

\* line 156: f"{priority.lower()}_priority"
StatsKey(priority) == Lower(priority) \o "_priority"

\* a CSV cell: str(alert.get(key, ''))
CellOf(alert, key) ==
    IF key \in DOMAIN alert
    THEN IF key \in {"type", "details"} THEN alert[key] ELSE ToString(alert[key])
    ELSE ""

\* _save_alert_to_csv: the row appended to the file
CsvRow(alert, priority, occurrence_count, saved_at) ==
    [ timestamp |-> CellOf(alert, "timestamp"), priority |-> priority,
      alert_type |-> CellOf(alert, "type"), person_id |-> CellOf(alert, "person_id"),
      duration |-> CellOf(alert, "duration"), count |-> CellOf(alert, "count"),
      occurrence |-> ToString(occurrence_count), saved_at |-> ToString(saved_at) ]

\* _save_alert_to_csv, lines 186-201: the row is appended unless opening or
\* writing the file fails, which is caught and reported at lines 200-201
SaveAlertToCsv(rows, alert, priority, occurrence_count, saved_at, io_ok) ==
    IF io_ok THEN Append(rows, CsvRow(alert, priority, occurrence_count, saved_at))
    ELSE rows

\* The body of the worker's loop for one dequeued alert (lines 146-170):
\* [cache, stats, rows, dedup]; an exception raised on the way is caught
\* at line 169 and ends the processing of this alert.
ProcessAlert(alert, current_time, cache0, stats0, rows, io_ok) ==
    LET counted == [stats0 EXCEPT !.total_alerts = @ + 1]
        d == ShouldProcessAlert(cache0, alert, current_time)
        priority == GetPriority(Get(alert, "type", ""))
    IN  IF d.raised
        THEN [ cache |-> d.cache, stats |-> counted, rows |-> rows, dedup |-> d,
               errors |-> 1 ]
        ELSE IF ~d.ok
        THEN [ cache |-> d.cache,
               stats |-> [counted EXCEPT !.duplicates_filtered = @ + 1],
               rows |-> rows, dedup |-> d, errors |-> 0 ]
        ELSE IF StatsKey(priority) \notin DOMAIN counted
        THEN [ cache |-> d.cache, stats |-> counted, rows |-> rows, dedup |-> d,
               errors |-> 1 ]
        ELSE [ cache |-> d.cache,
               stats |-> [counted EXCEPT ![StatsKey(priority)] = @ + 1],
               rows |-> SaveAlertToCsv(rows, alert, priority, d.count, current_time,
                                       io_ok),
               dedup |-> d, errors |-> IF io_ok THEN 0 ELSE 1 ]

\* the observer's key of an alert: its type and person id
KeyOf(alert) == <<CellOf(alert, "type"), CellOf(alert, "person_id")>>

\* the observer's record of the calls for one key after a call at
\* current_time with result d, rows_added rows having been written
StreakAfter(alert, current_time, d, rows_added) ==
    LET key == KeyOf(alert)
        continues == /\ key \in DOMAIN streak
                     /\ current_time - streak[key].last < TIME_WINDOW
        before == IF continues THEN streak[key]
                  ELSE [last |-> 0, n |-> 0, admitted |-> 0, rows |-> 0, counts |-> {},
                        admitted_at |-> 0]
        admitted_now == ~d.raised /\ d.ok
    IN  Put(streak, key,
            [ last |-> current_time, n |-> before.n + 1,
              admitted |-> before.admitted + (IF admitted_now THEN 1 ELSE 0),
              rows |-> before.rows + rows_added,
              counts |-> before.counts \cup {CellOf(alert, "count")},
              admitted_at |-> IF admitted_now THEN current_time ELSE before.admitted_at ])

\* AlertLogger.__init__
LoggerInit ==
    /\ alert_queue = <<>>
    /\ running = FALSE
    /\ workers = <<>>
    /\ worker_thread = 0
    /\ alert_cache = <<>>
    /\ stats = [ total_alerts |-> 0, high_priority |-> 0, medium_priority |-> 0,
                 low_priority |-> 0, duplicates_filtered |-> 0 ]
    /\ csv_rows = <<>>
    /\ lclock = 0
    /\ caller = "idle"
    /\ logged = 0
    /\ streak = <<>>
    /\ last_dedup = <<>>
    /\ log_output = [warnings |-> 0, errors |-> 0]
    /\ undrained = 0

\* the other components are left alone
LoggerOnly == UNCHANGED <<trackerVars, behaviourVars, areaVars, mainVars>>

\* time passes
Tick ==
    /\ LoggerOnly
    /\ lclock + LogTick <= MaxLogElapsed
    /\ lclock' = lclock + LogTick
    /\ UNCHANGED <<alert_queue, running, workers, worker_thread, alert_cache, stats,
                   csv_rows, caller, logged, streak, last_dedup, log_output, undrained>>

\* AlertLogger.start
Start ==
    /\ LoggerOnly
    /\ caller = "idle"
    /\ ~running
    /\ Len(workers) < MaxStarts
    /\ running' = TRUE
    /\ workers' = Append(workers, "loop")
    /\ worker_thread' = Len(workers) + 1
    /\ UNCHANGED <<alert_queue, alert_cache, stats, csv_rows, lclock, caller, logged,
                   streak, last_dedup, log_output, undrained>>

\* AlertLogger.start while running: returns at once
StartAgain ==
    /\ LoggerOnly
    /\ caller = "idle"
    /\ running
    /\ UNCHANGED loggerVars

QueuePutUnbounded(q, item) == [queue |-> Append(q, item), full |-> FALSE]

\* Queue.put(item, timeout=1) on a queue of maxsize QueueMaxSize whose
\* consumer does not take an item within the timeout: [queue, full], full
\* being the queue.Full exception
QueuePut(q, item) ==
    IF Len(q) < QueueMaxSize THEN [queue |-> Append(q, item), full |-> FALSE]
    ELSE [queue |-> q, full |-> TRUE]

\* AlertLogger.log_alert: the alert is stamped and enqueued, or dropped when
\* the queue has stayed full for the put's timeout
LogAlert(alert) ==
    /\ LoggerOnly
    /\ caller = "idle"
    /\ logged < MaxLogged
    /\ logged' = logged + 1
    /\ \E r \in {QueuePut(alert_queue,
                           IF "timestamp" \in DOMAIN alert THEN alert
                           ELSE Put(alert, "timestamp", lclock))} :
          /\ alert_queue' = r.queue
          /\ log_output' = IF r.full THEN [log_output EXCEPT !.warnings = @ + 1]
                           ELSE log_output
    /\ UNCHANGED <<running, workers, worker_thread, alert_cache, stats, csv_rows,
                   lclock, caller, streak, last_dedup, undrained>>

\* AlertLogger.stop, line 119: self.running = False
StopBegin ==
    /\ LoggerOnly
    /\ caller = "idle"
    /\ running' = FALSE
    /\ caller' = "stop_put"
    /\ undrained' = IF running
                    THEN Len(SelectSeq(alert_queue, LAMBDA item : item # NoneItem))
                    ELSE undrained
    /\ UNCHANGED <<alert_queue, workers, worker_thread, alert_cache, stats, csv_rows,
                   lclock, logged, streak, last_dedup, log_output>>

\* AlertLogger.stop, lines 120-124: put(None, timeout=1); a queue that stays
\* full makes the put raise queue.Full, which is swallowed
StopPut ==
    /\ LoggerOnly
    /\ caller = "stop_put"
    /\ alert_queue' = QueuePut(alert_queue, NoneItem).queue
    /\ caller' = "stop_join"
    /\ UNCHANGED <<running, workers, worker_thread, alert_cache, stats, csv_rows,
                   lclock, logged, streak, last_dedup, log_output, undrained>>

\* AlertLogger.stop, lines 125-127: join(timeout=5) returns when the thread
\* has ended or the timeout has passed
StopJoin ==
    /\ LoggerOnly
    /\ caller = "stop_join"
    /\ caller' = "idle"
    /\ UNCHANGED <<alert_queue, running, workers, worker_thread, alert_cache, stats,
                   csv_rows, lclock, logged, streak, last_dedup, log_output, undrained>>

AfterLoopTestForever(flag) == "get"

\* line 140: where the thread goes after testing self.running
AfterLoopTest(flag) == IF flag THEN "get" ELSE "exited"

\* _process_alerts, line 140: while self.running
WorkerLoop(w) ==
    /\ LoggerOnly
    /\ w \in DOMAIN workers
    /\ workers[w] = "loop"
    /\ workers' = [workers EXCEPT ![w] = AfterLoopTest(running)]
    /\ UNCHANGED <<alert_queue, running, worker_thread, alert_cache, stats, csv_rows,
                   lclock, caller, logged, streak, last_dedup, log_output, undrained>>

\* The worker handles one dequeued alert at the current time (lines
\* 146-170); the observers record the deduplicator's answer.
Processed(alert) ==
    \E io_ok \in BOOLEAN :
    \E r \in {ProcessAlert(alert, lclock, alert_cache, stats, csv_rows, io_ok)} :
        /\ log_output' = [log_output EXCEPT !.errors = @ + r.errors]
        /\ alert_cache' = r.cache
        /\ stats' = r.stats
        /\ csv_rows' = r.rows
        /\ streak' = StreakAfter(alert, lclock, r.dedup, Len(r.rows) - Len(csv_rows))
        /\ last_dedup' = << [ key |-> KeyOf(alert),
                              type |-> CellOf(alert, "type"),
                              k |-> streak'[KeyOf(alert)].n,
                              raised |-> r.dedup.raised, ok |-> r.dedup.ok,
                              count |-> r.dedup.count ] >>

AfterProcessingFatal(errors) == IF errors > 0 THEN "exited" ELSE "loop"

\* lines 149-151 (continue), 166 (end of the body) and 169-170 (the except
\* clause): where the thread goes after an alert, errors being the number of
\* exceptions caught while handling it
AfterProcessing(errors) == "loop"

\* _process_alerts, lines 142-170 with an item in the queue: the sentinel
\* ends the thread, an alert is processed
WorkerGet(w) ==
    /\ LoggerOnly
    /\ w \in DOMAIN workers
    /\ workers[w] = "get"
    /\ alert_queue # <<>>
    /\ alert_queue' = Tail(alert_queue)
    /\ IF Head(alert_queue) = NoneItem
       THEN /\ workers' = [workers EXCEPT ![w] = "exited"]
            /\ UNCHANGED <<alert_cache, stats, csv_rows, streak, last_dedup,
                           log_output, undrained>>
       ELSE /\ Processed(Head(alert_queue))
            /\ workers' = [workers EXCEPT ![w] =
                               AfterProcessing(log_output'.errors - log_output.errors)]
            /\ undrained' = IF undrained > 0 THEN undrained - 1 ELSE 0
    /\ UNCHANGED <<running, worker_thread, lclock, caller, logged>>

\* One pass of the worker's loop body over an alert that log_alert stamped
\* and the worker dequeued at the current time.
WorkerProcess(alert) ==
    /\ LoggerOnly
    /\ stats.total_alerts < MaxProcessed
    /\ Processed(Put(alert, "timestamp", lclock))
    /\ UNCHANGED <<alert_queue, running, workers, worker_thread, lclock, caller,
                   logged, undrained>>

\* _process_alerts, lines 142 and 167-168: get(timeout=1) raises queue.Empty
WorkerEmpty(w) ==
    /\ LoggerOnly
    /\ w \in DOMAIN workers
    /\ workers[w] = "get"
    /\ alert_queue = <<>>
    /\ workers' = [workers EXCEPT ![w] = "loop"]
    /\ UNCHANGED <<alert_queue, running, worker_thread, alert_cache, stats, csv_rows,
                   lclock, caller, logged, streak, last_dedup, log_output, undrained>>

\* main.py lines 44-51: the list handed to analyse_behaviour
BehaviourInput(objs) ==
    [k \in DOMAIN objs |->
        [id |-> objs[k].id, center |-> objs[k].center, timestamp |-> objs[k].timestamp]]

\* main.py lines 59-64: tracked_dict, a dict in insertion order, as the
\* sequence of its items
TrackedDict(objs) ==
    [k \in DOMAIN objs |->
        [key |-> objs[k].id,
         value |-> [centroid |-> objs[k].center, bbox |-> objs[k].bbox]]]

\* "for person in tracked_people" over a dict yields its keys
IterDict(d) == [k \in DOMAIN d |-> d[k].key]

\* restricted_area.py line 63, person['id'], on the first person of the first
\* area: an int key cannot be subscripted
SubscriptError(areas, people) ==
    IF areas # <<>> /\ people # <<>> THEN "TypeError" ELSE ""

\* log_alert for each alert of a list, in order: [queue, warnings]
RECURSIVE LogAlerts(_, _, _, _, _)
LogAlerts(alerts, i, q, warnings, current_time) ==
    IF i > Len(alerts) THEN [queue |-> q, warnings |-> warnings]
    ELSE LET r == QueuePut(q, Put(alerts[i], "timestamp", current_time))
         IN  LogAlerts(alerts, i + 1, r.queue,
                       warnings + (IF r.full THEN 1 ELSE 0), current_time)

\* a frame in which the detector reports three people standing together
CrowdFrame ==
    << [bbox |-> BoxA, confidence |-> 90], [bbox |-> BoxB, confidence |-> 80],
       [bbox |-> BoxE, confidence |-> 70] >>

\* main.py lines 38-42: detection and tracker.update
MainTrack ==
    /\ main_pc = "track"
    /\ \E dets \in DetectionLists \cup {CrowdFrame} : Update(dets)
    /\ main_pc' = "behaviour"
    /\ UNCHANGED <<main_error, behaviourVars, areaVars, loggerVars>>

\* main.py lines 44-55: analyse_behaviour and log_alert for each alert
MainBehaviour ==
    /\ main_pc = "behaviour"
    /\ AnalyseBehaviour(BehaviourInput(tracked_objects), tclock)
    /\ \E r \in {LogAlerts(b_alerts', 1, alert_queue, 0, tclock)} :
          /\ alert_queue' = r.queue
          /\ log_output' = [log_output EXCEPT !.warnings = @ + r.warnings]
    /\ logged' = logged + Len(b_alerts')
    /\ main_pc' = "restricted"
    /\ UNCHANGED <<main_error, trackerVars, areaVars, running, workers, worker_thread,
                   alert_cache, stats, csv_rows, lclock, caller, streak, last_dedup,
                   undrained>>

\* main.py lines 57-68: tracked_dict, check_restricted_area and log_alert for
\* each breach alert; an exception of the check is caught nowhere and ends
\* main()
MainRestricted ==
    /\ main_pc = "restricted"
    /\ \E people \in {IterDict(TrackedDict(tracked_objects))} :
       \E error \in {SubscriptError(restricted_areas, people)} :
          IF error # ""
          THEN /\ main_pc' = "crashed"
               /\ main_error' = error
               /\ UNCHANGED <<areaVars, loggerVars>>
          ELSE /\ CheckRestrictedArea(people)
               /\ \E r \in {LogAlerts(area_alerts', 1, alert_queue, 0, tclock)} :
                     /\ alert_queue' = r.queue
                     /\ log_output' = [log_output EXCEPT !.warnings = @ + r.warnings]
               /\ logged' = logged + Len(area_alerts')
               /\ main_pc' = "track"
               /\ UNCHANGED <<main_error, running, workers, worker_thread, alert_cache,
                              stats, csv_rows, lclock, caller, streak, last_dedup,
                              undrained>>
    /\ UNCHANGED <<trackerVars, behaviourVars>>

\* main() before its loop: nothing raised yet
MainInit == main_pc = "track" /\ main_error = ""

InitTracker ==
    /\ \E mm \in 0..MaxMissingArg : TrackerInit(mm)
    /\ BehaviourInit
    /\ AreaInit(<<4, 12>>)
    /\ LoggerInit
    /\ MainInit

NextTracker ==
    /\ \E dets \in DetectionLists : Update(dets)
    /\ UNCHANGED <<behaviourVars, areaVars, loggerVars, mainVars>>

SpecTracker == InitTracker /\ [][NextTracker]_vars

\* frames fed to the tracker when its matching is examined
MatchFrames == 2

\* the tracker fed with frames whose detections tie or have no area
NextMatching ==
    /\ tclock < MatchFrames
    /\ \E dets \in MatchingLists : Update(dets)
    /\ UNCHANGED <<behaviourVars, areaVars, loggerVars, mainVars>>

\* a tracker that keeps an unmatched track for one frame
InitMatching ==
    /\ TrackerInit(1)
    /\ BehaviourInit
    /\ AreaInit(<<4, 12>>)
    /\ LoggerInit
    /\ MainInit

SpecMatching == InitMatching /\ [][NextMatching]_vars

\* the tracker fed with well-formed and malformed frames
TrackerOnly == UNCHANGED <<behaviourVars, areaVars, loggerVars, mainVars>>

NextTrackerInputs ==
    \/ \E dets \in DetectionLists : Update(dets) /\ TrackerOnly
    \/ \E detections \in MalformedDetections : UpdateMalformed(detections) /\ TrackerOnly

SpecTrackerInputs == InitTracker /\ [][NextTrackerInputs]_vars

InitBehaviour ==
    /\ TrackerInit(MaxMissingArg) /\ BehaviourInit /\ AreaInit(<<4, 12>>) /\ LoggerInit
    /\ MainInit

\* A call some seconds after the previous one; a person's timestamp is the
\* call's time (track matched in this frame) or the previous call's time
\* (track not matched since).
NextBehaviour ==
    /\ \E delta \in Deltas :
         /\ bclock + delta <= StartClock + MaxElapsed
         /\ \E people \in PeopleLists(BehaviourIds, {CenterA, CenterB, CenterC},
                                       {bclock + delta, bclock}) :
                AnalyseBehaviour(people, bclock + delta)
    /\ UNCHANGED <<trackerVars, areaVars, loggerVars, mainVars>>

SpecBehaviour == InitBehaviour /\ [][NextBehaviour]_vars

\* Calls in which a person drifts in steps of exactly the movement threshold:
\* CenterB is 5 px from CenterA and from CenterF, CenterF is 10 px from CenterA.
NextMovement ==
    /\ \E delta \in Deltas :
         /\ bclock + delta <= StartClock + MaxElapsed
         /\ \E people \in PeopleLists(BehaviourIds, {CenterA, CenterB, CenterF},
                                       {bclock + delta, bclock}) :
                AnalyseBehaviour(people, bclock + delta)
    /\ UNCHANGED <<trackerVars, areaVars, loggerVars, mainVars>>

SpecMovement == InitBehaviour /\ [][NextMovement]_vars

\* Calls with up to MaxCrowdPeople people anywhere among the four centers.
NextCrowd ==
    /\ calls < MaxCrowdCalls
    /\ \E people \in PeopleLists(1..MaxCrowdPeople,
                                  {CenterA, CenterB, CenterC, CenterD}, {bclock + 60}) :
           AnalyseBehaviour(people, bclock + 60)
    /\ UNCHANGED <<trackerVars, areaVars, loggerVars, mainVars>>

SpecCrowd == InitBehaviour /\ [][NextCrowd]_vars

InitArea ==
    /\ TrackerInit(MaxMissingArg)
    /\ BehaviourInit
    /\ \E frame_shape \in FrameShapes : AreaInit(frame_shape)
    /\ LoggerInit
    /\ MainInit

NextArea ==
    /\ \E people \in AreaInputs : CheckRestrictedArea(people)
    /\ UNCHANGED <<trackerVars, behaviourVars, loggerVars, mainVars>>

SpecArea == InitArea /\ [][NextArea]_vars

InitLogger ==
    /\ TrackerInit(MaxMissingArg) /\ BehaviourInit /\ AreaInit(<<4, 12>>) /\ LoggerInit
    /\ MainInit

NextLogger ==
    \/ Start
    \/ StartAgain
    \/ \E alert \in Alerts : LogAlert(alert)
    \/ StopBegin
    \/ StopPut
    \/ StopJoin
    \/ \E w \in 1..Len(workers) : WorkerLoop(w)
    \/ \E w \in 1..Len(workers) : WorkerGet(w)
    \/ \E w \in 1..Len(workers) : WorkerEmpty(w)

SpecLogger == InitLogger /\ [][NextLogger]_vars

\* The threads keep being scheduled and the timeouts of put (line 122),
\* join (line 126) and get (line 142) expire: the steps of stop() after its
\* first and the steps of each worker are weakly fair. The callers of
\* start, stop and log_alert are under no obligation.
LoggerFairness ==
    /\ WF_vars(StopPut)
    /\ WF_vars(StopJoin)
    /\ \A w \in 1..MaxStarts :
        WF_vars(WorkerLoop(w)) /\ WF_vars(WorkerGet(w)) /\ WF_vars(WorkerEmpty(w))

SpecLoggerLive == InitLogger /\ [][NextLogger]_vars /\ LoggerFairness

\* main() after lines 15-27: the tracker, the logger started with its worker
\* thread, the area checker built from the first frame
InitMain ==
    /\ \E mm \in 0..MaxMissingArg : TrackerInit(mm)
    /\ BehaviourInit
    /\ \E frame_shape \in FrameShapes : AreaInit(frame_shape)
    /\ MainInit
    /\ alert_queue = <<>> /\ running = TRUE /\ workers = <<"loop">>
    /\ worker_thread = 1 /\ alert_cache = <<>>
    /\ stats = [ total_alerts |-> 0, high_priority |-> 0, medium_priority |-> 0,
                 low_priority |-> 0, duplicates_filtered |-> 0 ]
    /\ csv_rows = <<>> /\ lclock = 0 /\ caller = "idle" /\ logged = 0
    /\ streak = <<>> /\ last_dedup = <<>>
    /\ log_output = [warnings |-> 0, errors |-> 0] /\ undrained = 0

\* the frame loop of main() with the logger's worker thread beside it
NextMain ==
    \/ MainTrack
    \/ MainBehaviour
    \/ MainRestricted
    \/ \E w \in 1..Len(workers) : WorkerLoop(w)
    \/ \E w \in 1..Len(workers) : WorkerGet(w)
    \/ \E w \in 1..Len(workers) : WorkerEmpty(w)

SpecMain == InitMain /\ [][NextMain]_vars

\* the worker's loop body alone, over every stream of alerts and every timing
NextWorker ==
    \/ Tick
    \/ \E alert \in Alerts : WorkerProcess(alert)

SpecWorker == InitLogger /\ [][NextWorker]_vars

(***************************************************************************)
(* Claims about PeopleTracker                                              *)
(***************************************************************************)
SetMax(S) == CHOOSE m \in S : \A n \in S : n <= m

\* the ids update() has just created: returned now, never returned before
CreatedIds == IdsOf(tracked_objects') \ assigned_ids

\* C1: no update() call returns two tracks with the same id; next_id never
\* decreases; every track a call creates gets an id greater than every id
\* returned before it, ids created in one call increase in list order, and
\* no id is handed to a new track twice.
C1_IdsUniqueIncreasing ==
    [][ /\ \A j, k \in 1..Len(tracked_objects') :
              tracked_objects'[j].id = tracked_objects'[k].id => j = k
        /\ next_id' >= next_id
        /\ \A i \in CreatedIds :
              /\ \A old \in assigned_ids : i > old
              /\ i >= next_id /\ i < next_id'
        /\ \A j, k \in 1..Len(tracked_objects') :
              (j < k /\ tracked_objects'[k].id \in CreatedIds)
                  => tracked_objects'[j].id < tracked_objects'[k].id
        /\ IdsOf(tracked_objects') \cap (assigned_ids \ IdsOf(tracked_objects)) = {}
      ]_vars

\* C1 witness: a call has created a track while an older track was alive and
\* after another id had already been dropped.
C1_Witness ==
    /\ Len(tracked_objects) >= 2
    /\ \E i \in assigned_ids : i \notin IdsOf(tracked_objects)
    /\ \E k \in 1..Len(tracks) : tracks[k].id = next_id - 1 /\ tracks[k].timestamp = tclock
    /\ \E k \in 1..Len(tracks) : tracks[k].timestamp < tclock

TrackWithId(trks, i) == trks[CHOOSE k \in 1..Len(trks) : trks[k].id = i]

\* C2: across one update() every live track is either matched (missing reset
\* to 0), or unmatched and kept unchanged with missing one higher and still
\* <= max_missing, or unmatched and absent from the output because its
\* missing count has just exceeded max_missing; the returned list is the
\* live set, and the id of a dropped track never comes back.
C2_MissingLifetime ==
    [][ /\ IdsOf(tracked_objects') = IdsOf(tracks')
        /\ \A k \in 1..Len(tracks') : tracks'[k].missing <= max_missing
        /\ \A k \in 1..Len(tracks) :
              LET t == tracks[k]
                  present == t.id \in IdsOf(tracked_objects')
                  after == TrackWithId(tracks', t.id)
              IN  \/ present /\ after.missing = 0 /\ after.timestamp = tclock'
                  \/ /\ present
                     /\ after = [t EXCEPT !.missing = t.missing + 1]
                     /\ after.missing <= max_missing
                  \/ ~present /\ t.missing + 1 > max_missing
        /\ \A i \in assigned_ids \ IdsOf(tracks) : i \notin IdsOf(tracked_objects')
      ]_vars

\* C2 witness: with max_missing = 2 a track has been kept through two
\* unmatched calls and another one has been dropped.
C2_Witness ==
    /\ max_missing = 2
    /\ \E k \in 1..Len(tracks) : tracks[k].missing = 2
    /\ \E i \in assigned_ids : i \notin IdsOf(tracked_objects)

(***************************************************************************)
(* Claims about analyse_behaviour                                          *)
(***************************************************************************)
PersonWithId(people, pid) == people[CHOOSE k \in 1..Len(people) : people[k].id = pid]

\* the IDLE condition of the last call for pid: observed for at least the
\* observation window and not moved for at least the idle threshold
IdleCondition(pid) ==
    LET p == PersonWithId(tracked_people, pid)
        h == person_history[pid]
    IN  /\ p.timestamp - h.first_seen >= OBSERVATION_TIME
        /\ p.timestamp - h.last_move_time >= IDLE_TIME_THRESHOLD

\* C3: a call returns at most one IDLE alert per id, and returns one exactly
\* when the id's IDLE condition holds and the id, present in every call
\* since, either has had no IDLE alert yet or had its last one more than
\* ALERT_COOLDOWN seconds before this call: two IDLE alerts of an id are
\* more than ALERT_COOLDOWN apart, and the first call made later than that
\* while the condition lasts emits the next one.
C3_IdleOncePerCooldown ==
    [][ \A pid \in PeopleIds(tracked_people') :
          LET n == Cardinality(IdleAlertsFor(b_alerts', pid))
              cooled == \/ pid \notin DOMAIN idle_emitted
                        \/ bclock' - idle_emitted[pid].time > ALERT_COOLDOWN
          IN  /\ n <= 1
              /\ (n = 1) <=> (IdleCondition(pid)' /\ cooled)
      ]_vars

\* C3 witness: an id has just got its second IDLE alert, and a call in
\* between (10 s after the first) returned none.
C3_Witness ==
    \E pid \in DOMAIN idle_emitted :
        /\ idle_emitted[pid].n = 2
        /\ idle_emitted[pid].time = bclock
        /\ IdleAlertsFor(b_alerts, pid) # {}
        /\ PersonWithId(tracked_people, pid).timestamp
              - person_history[pid].last_move_time = IDLE_TIME_THRESHOLD + 20

CrowdAlerts(alerts) == { k \in 1..Len(alerts) : alerts[k].type = "CROWD_DETECTED" }

\* the ids within the crowd distance of at least one other person of the call
NearSomeone(people) ==
    { people[i].id : i \in { i \in 1..Len(people) :
        \E j \in 1..Len(people) :
            /\ people[j].id # people[i].id
            /\ Distance2(people[i].center, people[j].center)
                  < CROWD_DISTANCE_THRESHOLD * CROWD_DISTANCE_THRESHOLD } }

\* C4: a call returns at most one CROWD_DETECTED alert, returns one exactly
\* when at least CROWD_COUNT_THRESHOLD people are within the crowd distance
\* of some other person, and its count is the number of those people.
C4_CrowdCountsPeople ==
    /\ Cardinality(CrowdAlerts(b_alerts)) <= 1
    /\ (CrowdAlerts(b_alerts) # {})
          <=> (Cardinality(NearSomeone(tracked_people)) >= CROWD_COUNT_THRESHOLD)
    /\ \A k \in CrowdAlerts(b_alerts) :
          b_alerts[k].count = Cardinality(NearSomeone(tracked_people))

\* C4 witness: three people in a chain (two close pairs, the ends apart)
\* got one alert with count 3.
C4_Witness ==
    /\ Len(tracked_people) = 3
    /\ ClosePairCount(tracked_people) = 2
    /\ \E k \in CrowdAlerts(b_alerts) : b_alerts[k].count = 3

(***************************************************************************)
(* Claims about RestrictedAreaChecker                                      *)
(***************************************************************************)
\* the zones are axis-parallel rectangles: inside or on the boundary means
\* within the extent of the vertices
InsideOrOnBoundary(center, points) ==
    /\ \E k \in 1..Len(points) : points[k][1] <= center[1]
    /\ \E k \in 1..Len(points) : points[k][1] >= center[1]
    /\ \E k \in 1..Len(points) : points[k][2] <= center[2]
    /\ \E k \in 1..Len(points) : points[k][2] >= center[2]

InsideIndexes(people, area) ==
    { i \in 1..Len(people) : InsideOrOnBoundary(people[i].center, area.points) }

\* C5: the call returns, for every zone with more people inside or on its
\* boundary than max_people, exactly one RESTRICTED_AREA_BREACH alert naming
\* the first such person in input order, and no alert for any other zone.
C5_BreachPerZone ==
    LET breached == { k \in 1..Len(restricted_areas) :
            Cardinality(InsideIndexes(area_people, restricted_areas[k]))
                > restricted_areas[k].max_people }
        expected(k) ==
            LET inside == InsideIndexes(area_people, restricted_areas[k])
                first == CHOOSE i \in inside : \A j \in inside : i <= j
            IN  [ type |-> "RESTRICTED_AREA_BREACH",
                  person_id |-> area_people[first].id,
                  details |-> ToString(Cardinality(inside)) \o " people in "
                                \o restricted_areas[k].name ]
    IN  /\ Len(area_alerts) = Cardinality(breached)
        /\ \A k \in breached :
              Cardinality({ a \in 1..Len(area_alerts) : area_alerts[a] = expected(k) }) = 1

\* C5 witness: one person on the boundary of the Server Room (max 0) gave
\* an alert, one person alone in the Equipment Zone (max 1) gave none.
C5_Witness ==
    /\ Len(area_people) = 2
    /\ Len(area_alerts) = 1
    /\ area_alerts[1].person_id = area_people[2].id
    /\ area_people[2].center = <<3, 2>>
    /\ area_people[1].center = <<8, 2>>
    /\ restricted_areas[1].points[2] = <<3, 0>>

\* ---------------------------------------------------------------------
\* Alert pipeline
\* ---------------------------------------------------------------------

\* the last answer of the deduplicator was an admission
LastAdmitted == last_dedup # <<>> /\ ~last_dedup[1].raised /\ last_dedup[1].ok

\* the log's last row is the row of the alert just processed
LastRowMatches ==
    /\ csv_rows # <<>>
    /\ csv_rows[Len(csv_rows)].alert_type = last_dedup[1].type
    /\ csv_rows[Len(csv_rows)].person_id = last_dedup[1].key[2]
    /\ csv_rows[Len(csv_rows)].occurrence = ToString(last_dedup[1].count)

\* C6: once the worker has processed an alert that should_process_alert
\* admitted, the persisted log holds a row for it whose alert type, person
\* id and occurrence number are those of the alert.
C6_AdmittedAlertHasRow == LastAdmitted => LastRowMatches

\* C7: after the worker has processed any sequence of dequeued alerts,
\* duplicates_filtered plus the three per-priority counters equals
\* total_alerts.
C7_StatsAddUp ==
    stats.duplicates_filtered + stats.high_priority + stats.medium_priority
        + stats.low_priority = stats.total_alerts

\* the keys of the alerts of one type that have been processed
KeysOfType(alert_type) == { key \in DOMAIN streak : key[1] = alert_type }

\* C8: among alerts of one dedup key processed with every gap shorter than
\* the window, at most one CROWD_DETECTED alert is admitted and written,
\* whatever the count fields, and at most one IDLE alert of one person.
C8_AtMostOneAdmitted ==
    \A key \in KeysOfType("CROWD_DETECTED") \cup KeysOfType("IDLE") :
        /\ streak[key].admitted <= 1
        /\ streak[key].rows <= 1

\* two CROWD_DETECTED alerts with different counts and two IDLE alerts of
\* person 1 have been processed inside the window, one of each admitted
C8_Witness ==
    /\ <<"CROWD_DETECTED", "">> \in DOMAIN streak
    /\ streak[<<"CROWD_DETECTED", "">>].n >= 2
    /\ streak[<<"CROWD_DETECTED", "">>].counts = {"4", "5"}
    /\ streak[<<"CROWD_DETECTED", "">>].admitted = 1
    /\ <<"IDLE", "1">> \in DOMAIN streak
    /\ streak[<<"IDLE", "1">>].n >= 2
    /\ streak[<<"IDLE", "1">>].admitted = 1

\* the admission quota the priorities are said to have
QuotaOf(alert_type) ==
    CASE GetPriority(alert_type) = HIGH -> 5
      [] GetPriority(alert_type) = MEDIUM -> 3
      [] GetPriority(alert_type) = LOW -> 1

\* C9: for a key that is not CROWD_DETECTED, the k-th occurrence inside the
\* window makes should_process_alert return (k <= quota, k), the quota
\* being 5 for HIGH, 3 for MEDIUM and 1 for LOW.
C9_QuotaPerPriority ==
    (last_dedup # <<>> /\ last_dedup[1].type # "CROWD_DETECTED") =>
        /\ ~last_dedup[1].raised
        /\ last_dedup[1].count = last_dedup[1].k
        /\ last_dedup[1].ok = (last_dedup[1].k <= QuotaOf(last_dedup[1].type))

\* C10: a worker that has exited after stop() has dequeued and processed
\* every alert that was in the queue when stop() was called.
C10_StopDrainsQueue ==
    \A w \in DOMAIN workers : workers[w] = "exited" => undrained = 0

\* every worker thread has left its loop
AllExited == \A w \in DOMAIN workers : workers[w] = "exited"

\* C11: once stop() has been called it returns, and the workers leave their
\* loop (unless start() sets running again first), whatever the queue holds
\* and wherever the worker is.
C11_StopTerminates ==
    /\ (caller = "stop_put") ~> (caller = "idle")
    /\ (~running) ~> (running \/ AllExited)

\* stop() has returned and the worker has exited although the queue was full
\* and the sentinel could not be enqueued
C11_Witness ==
    /\ caller = "idle"
    /\ ~running
    /\ workers # <<>>
    /\ AllExited
    /\ Len(alert_queue) = QueueMaxSize
    /\ \A i \in DOMAIN alert_queue : alert_queue[i] # NoneItem

\* the alerts (not the sentinel) waiting in a queue
AlertsIn(q) == Len(SelectSeq(q, LAMBDA item : item # NoneItem))

\* a log_alert call that finds the queue full returns with the queue as it
\* was and one more warning reported
DropIsReported ==
    (logged' = logged + 1 /\ Len(alert_queue) = QueueMaxSize) =>
        /\ alert_queue' = alert_queue
        /\ log_output'.warnings = log_output.warnings + 1
        /\ caller' = "idle"

\* C12: the queue never holds more than its capacity; a log_alert call on a
\* full queue returns without raising, reports the drop, and the dropped
\* alert is never enqueued or processed: the alerts dequeued so far and those
\* still queued are exactly the calls that were not reported as dropped.
C12_FullQueueDrops ==
    /\ [](Len(alert_queue) <= QueueMaxSize)
    /\ [](stats.total_alerts + AlertsIn(alert_queue) = logged - log_output.warnings)
    /\ [][DropIsReported]_vars

\* an alert was dropped on a full queue while the worker was running, and an
\* accepted alert has been processed
C12_Witness ==
    /\ log_output.warnings >= 1
    /\ running
    /\ stats.total_alerts >= 1
    /\ logged = stats.total_alerts + log_output.warnings

\* worker w leaves its loop in this step
Exits(w) == workers[w] # "exited" /\ workers'[w] = "exited"

\* C13: a worker leaves its loop only at a loop test that finds running
\* false or on dequeuing the sentinel; an exception caught while an alert is
\* processed sends it back to the loop test, from where it dequeues the next
\* alert.
C13_FailureKeepsWorker ==
    [][\A w \in DOMAIN workers :
          /\ Exits(w) =>
                \/ workers[w] = "loop" /\ ~running
                \/ workers[w] = "get" /\ alert_queue # <<>>
                     /\ Head(alert_queue) = NoneItem
          /\ (workers[w] = "get" /\ log_output'.errors > log_output.errors) =>
                workers'[w] \in {"loop", "get"}]_vars

\* two alerts in a row have raised while being processed and the worker is
\* at its loop with running still true
C13_Witness ==
    /\ log_output.errors >= 2
    /\ stats.total_alerts >= 2
    /\ running
    /\ \E w \in DOMAIN workers : workers[w] = "loop"

\* the statistics counter of a priority
CounterOf(priority) == Lower(priority)

\* the worker has just processed an alert that the deduplicator admitted
AdmittedNow ==
    /\ stats'.total_alerts = stats.total_alerts + 1
    /\ ~last_dedup'[1].raised /\ last_dedup'[1].ok

\* C14: when the worker processes an admitted alert, the counter of the
\* alert's priority (MEDIUM for a type that is not in the priority map)
\* goes up by one and the alert is persisted with that priority.
C14_PriorityCounted ==
    [][AdmittedNow =>
          \E priority \in {GetPriority(last_dedup'[1].type)} :
              /\ stats'[CounterOf(priority)] = stats[CounterOf(priority)] + 1
              /\ Len(csv_rows') = Len(csv_rows) + 1
              /\ csv_rows'[Len(csv_rows')].priority = priority]_vars

\* a frame without detections: every track one tick older, those past
\* max_missing gone
AgedTracks(trks) ==
    SelectSeq([k \in DOMAIN trks |-> [trks[k] EXCEPT !.missing = @ + 1]],
              LAMBDA t : t.missing <= max_missing)

\* C15: update() with an empty or malformed argument does not raise and acts
\* as a frame with zero detections: every track ages by one, tracks past
\* max_missing are removed, no track is created and next_id is unchanged.
C15_MalformedIsEmptyFrame ==
    [][(tclock' # tclock /\ last_update'.input \in {"empty", "malformed"}) =>
          /\ last_update'.raised = ""
          /\ tracks' = AgedTracks(tracks)
          /\ next_id' = next_id]_vars

CrowdKey == <<"CROWD_DETECTED", "">>

\* the worker processes a CROWD_DETECTED alert in this step
CrowdProcessed ==
    /\ stats'.total_alerts = stats.total_alerts + 1
    /\ last_dedup'[1].key = CrowdKey

\* C16: a CROWD_DETECTED alert that arrives a cooldown interval or more after
\* the last admitted one is admitted, whatever suppressed alerts arrived in
\* between, and one that arrives sooner is suppressed.
C16_CrowdCooldown ==
    [][(CrowdProcessed /\ CrowdKey \in DOMAIN streak) =>
          ((~last_dedup'[1].raised /\ last_dedup'[1].ok)
              <=> lclock - streak[CrowdKey].admitted_at >= TIME_WINDOW)]_vars

\* the worker processes in this step an alert of a key other than
\* CROWD_DETECTED whose previous occurrence is a window or more old
ProcessedAfterWindow ==
    /\ stats'.total_alerts = stats.total_alerts + 1
    /\ last_dedup'[1].key # CrowdKey
    /\ last_dedup'[1].key \in DOMAIN streak
    /\ lclock - streak[last_dedup'[1].key].last >= TIME_WINDOW

\* C17: an occurrence of a key that arrives a window or more after the key's
\* last occurrence is admitted with the occurrence counter back at 1, both
\* when the old cache entry is still there and when it has been purged.
C17_ResetAfterWindow ==
    [][ProcessedAfterWindow =>
          /\ ~last_dedup'[1].raised
          /\ last_dedup'[1].ok
          /\ last_dedup'[1].count = 1]_vars

\* IDLE of person 1 came back after 30 s (its entry still cached) and the
\* unknown-type alert after 75 s (its entry purged); both were admitted as
\* occurrence 1
C17_Witness ==
    /\ lclock = 75
    /\ stats.total_alerts = 4
    /\ DOMAIN streak = {<<"IDLE", "1">>, <<"FIRE", "2">>}
    /\ streak[<<"IDLE", "1">>] =
           [last |-> 30, n |-> 1, admitted |-> 1, rows |-> 0, counts |-> {""},
            admitted_at |-> 30]
    /\ last_dedup[1].key = <<"FIRE", "2">>
    /\ last_dedup[1].ok /\ last_dedup[1].count = 1 /\ ~last_dedup[1].raised
    /\ alert_cache[GenerateHash(AlertIdle1)] = <<30, 1>>
    /\ alert_cache[GenerateHash(AlertUnknown)] = <<75, 1>>

\* C18: in every frame the restricted-area step receives the frame's tracks
\* in the shape it reads and completes without raising, so main() is never
\* ended by it.
C18_RestrictedStepCompletes == main_pc # "crashed" /\ main_error = ""

\* ---------------------------------------------------------------------
\* Behaviour analysis: history and observation window
\* ---------------------------------------------------------------------

\* the ids this call sees without a history entry get a fresh one
NewIdsStartAfresh ==
    calls' = calls + 1 =>
        \A pid \in PeopleIds(tracked_people') \ DOMAIN person_history :
            person_history'[pid] = NewHistory(PersonWithId(tracked_people', pid))

\* C19: after every analyse_behaviour call the ids with a history entry are
\* the ids of that call's input, and an id that had no entry (never seen, or
\* absent from the call before) starts with first_seen and last_move_time at
\* its timestamp and no alert times.
C19_HistoryFollowsInput ==
    /\ [](DOMAIN person_history = PeopleIds(tracked_people))
    /\ [][NewIdsStartAfresh]_vars

\* person 1, seen in an earlier call, was absent from the last one and has
\* no history entry left
C19_Witness ==
    /\ 1 \in seen_ids
    /\ 1 \notin PeopleIds(tracked_people)
    /\ 1 \notin DOMAIN person_history
    /\ bclock >= StartClock + OBSERVATION_TIME

\* the per-person alerts in a list of alerts
PersonAlerts(alerts) ==
    { alerts[i] : i \in { k \in DOMAIN alerts :
                              alerts[k].type \in {"IDLE", "SUSPICIOUS_STANDING"} } }

\* C20: an IDLE or SUSPICIOUS_STANDING alert is returned only for an id that
\* had a history entry before the call and whose timestamp is at least the
\* observation window after its first_seen.
C20_NoAlertWhileObserving ==
    [][calls' = calls + 1 =>
          \A alert \in PersonAlerts(b_alerts') :
              /\ alert.person_id \in DOMAIN person_history
              /\ PersonWithId(tracked_people', alert.person_id).timestamp
                     - person_history[alert.person_id].first_seen >= OBSERVATION_TIME]_vars

\* person 1, known and stationary, is seen again inside its observation
\* window and the call returns no alert
C20_Witness ==
    /\ calls >= 2
    /\ 1 \in DOMAIN person_history
    /\ PersonWithId(tracked_people, 1).timestamp - person_history[1].first_seen > 0
    /\ PersonWithId(tracked_people, 1).timestamp - person_history[1].first_seen
           < OBSERVATION_TIME
    /\ person_history[1].last_move_time = person_history[1].first_seen
    /\ b_alerts = <<>>

\* the center is strictly more than the movement threshold away
BeyondThreshold(center, position) ==
    Distance2(center, position) > MOVEMENT_THRESHOLD * MOVEMENT_THRESHOLD

\* C21: for an id with a history entry, a call sets last_move_time and
\* last_position to the call's timestamp and center when the center is
\* strictly more than the movement threshold from the recorded last_position,
\* and leaves both unchanged otherwise.
C21_MovementFromLastPosition ==
    [][calls' = calls + 1 =>
          \A pid \in PeopleIds(tracked_people') \cap DOMAIN person_history :
              \E p \in {PersonWithId(tracked_people', pid)} :
                  IF BeyondThreshold(p.center, person_history[pid].last_position)
                  THEN /\ person_history'[pid].last_move_time = p.timestamp
                       /\ person_history'[pid].last_position = p.center
                  ELSE /\ person_history'[pid].last_move_time
                            = person_history[pid].last_move_time
                       /\ person_history'[pid].last_position
                            = person_history[pid].last_position]_vars

\* person 1 stands exactly the threshold away from its recorded position:
\* the position and last_move_time are those of its first sighting and an
\* IDLE alert has been returned for the time since then
C21_Witness ==
    /\ 1 \in DOMAIN person_history
    /\ PersonWithId(tracked_people, 1).center = CenterB
    /\ person_history[1].last_position = CenterA
    /\ person_history[1].last_move_time = person_history[1].first_seen
    /\ IdleAlertsFor(b_alerts, 1) # {}

\* The reference greedy assignment.  Overlap is the intersection area of two
\* boxes; the score of a detection against a track is Iou.
Overlap(boxA, boxB) ==
    Max(0, Min(boxA[3], boxB[3]) - Max(boxA[1], boxB[1]))
        * Max(0, Min(boxA[4], boxB[4]) - Max(boxA[2], boxB[2]))

\* detection i is at least as good a choice for bbox as detection j: a
\* higher IOU, or the same IOU and no higher an index
Preferred(bbox, dets, i, j) ==
    \/ FracGreater(Iou(bbox, dets[i].bbox), Iou(bbox, dets[j].bbox))
    \/ /\ ~FracGreater(Iou(bbox, dets[j].bbox), Iou(bbox, dets[i].bbox))
       /\ i <= j

\* the detection a track claims among those not yet claimed (0: none)
RefClaim(bbox, dets, claimed) ==
    LET unclaimed == (1..Len(dets)) \ claimed
        candidates == { i \in unclaimed :
                          /\ \A j \in unclaimed : Preferred(bbox, dets, i, j)
                          /\ Overlap(bbox, dets[i].bbox) > 0
                          /\ FracGreater(Iou(bbox, dets[i].bbox),
                                         <<IouThresholdNum, IouThresholdDen>>) }
    IN  IF candidates = {} THEN 0 ELSE CHOOSE i \in candidates : TRUE

\* the claims of the tracks trks[k..], in order, as a sequence parallel to trks
RECURSIVE RefClaims(_, _, _, _)
RefClaims(trks, k, dets, claims) ==
    IF k > Len(trks) THEN claims
    ELSE RefClaims(trks, k + 1, dets,
             Append(claims,
                    RefClaim(trks[k].bbox, dets,
                             { claims[j] : j \in 1..Len(claims) } \ {0})))

\* the tracks are held in ascending id order
AscendingIds(trks) ==
    \A i, j \in 1..Len(trks) : i < j => trks[i].id < trks[j].id

\* the tracks of trks that carry the id
TracksWithId(trks, id) == { trks[k] : k \in { n \in 1..Len(trks) : trks[n].id = id } }

\* the outcome of an update for the old track at position k under the claims
ClaimApplied(old, claim, dets, trks, current_time, mm) ==
    IF claim # 0
    THEN \E t \in TracksWithId(trks, old.id) :
             t = TrackFrom(old.id, dets[claim], current_time)
    ELSE IF old.missing + 1 <= mm
         THEN \E t \in TracksWithId(trks, old.id) :
                  t = [old EXCEPT !.missing = @ + 1]
         ELSE TracksWithId(trks, old.id) = {}

\* C22: the tracks are visited in ascending id order and every update gives
\* each existing track the outcome of the reference greedy assignment: the
\* unclaimed detection of highest IOU, lowest index on ties, accepted only
\* above the threshold and with a non-zero IOU, earlier claims being final.
C22_GreedyAssignment ==
    [][(tclock' = tclock + 1 /\ last_update'.raised = "") =>
          /\ AscendingIds(tracks) /\ AscendingIds(tracks')
          /\ \E dets \in {last_update'.detections} :
             \E claims \in {RefClaims(tracks, 1, dets, <<>>)} :
                 \A k \in 1..Len(tracks) :
                     ClaimApplied(tracks[k], claims[k], dets, tracks', tclock',
                                  max_missing)]_vars

\* a frame with the single detection BoxB after which track 1 holds BoxB,
\* matched, while track 2, whose own box is BoxB, went unmatched: the earlier
\* track claimed the detection and the claim stood
C22_Witness ==
    /\ Len(last_update.detections) = 1
    /\ last_update.detections[1].bbox = BoxB
    /\ Len(tracks) = 2
    /\ tracks[1].id = 1 /\ tracks[1].bbox = BoxB /\ tracks[1].missing = 0
    /\ tracks[2].id = 2 /\ tracks[2].bbox = BoxB /\ tracks[2].missing = 1

\* positions of the tracks that a detection of the last call updated or created
FreshTracks == { k \in 1..Len(tracks) : tracks[k].missing = 0 }

\* one-to-one assignments of the detections of the last call to those tracks
Consumptions(dets) ==
    { f \in [1..Len(dets) -> FreshTracks] :
        /\ \A i, j \in 1..Len(dets) : i # j => f[i] # f[j]
        /\ \A i \in 1..Len(dets) :
               /\ tracks[f[i]].bbox = dets[i].bbox
               /\ tracks[f[i]].confidence = dets[i].confidence }

\* C23: after every update each detection of the call is held by exactly
\* one track, updated or new, and no track by two: the tracks with missing 0,
\* which are the returned tracks stamped with the call's time, are as many as
\* the detections and carry distinct ids.
C23_DetectionConsumedOnce ==
    last_update.raised = "" =>
        /\ Cardinality(FreshTracks) = Len(last_update.detections)
        /\ Consumptions(last_update.detections) # {}
        /\ \A k \in 1..Len(tracks) : k \in FreshTracks <=> tracks[k].timestamp = tclock
        /\ Cardinality({ k \in 1..Len(tracked_objects) :
                            tracked_objects[k].timestamp = tclock })
               = Len(last_update.detections)
        /\ \A j, k \in FreshTracks : j # k => tracks[j].id # tracks[k].id

\* a call with two detections of which one updated track 1 and the other
\* created track 3, while track 2 went unmatched
C23_Witness ==
    /\ Len(last_update.detections) = 2
    /\ Len(tracks) = 3
    /\ tracks[1].id = 1 /\ tracks[1].missing = 0 /\ tracks[1].timestamp = tclock
    /\ tracks[2].id = 2 /\ tracks[2].missing = 1
    /\ tracks[3].id = 3 /\ tracks[3].missing = 0 /\ tracks[3].timestamp = tclock
    /\ next_id = 4

\* the worker threads that have not left _process_alerts
LiveWorkers == { w \in DOMAIN workers : workers[w] # "exited" }

\* C24: while running is true exactly one worker thread is alive; in
\* particular no sentinel left in the queue by an earlier stop() has made the
\* worker of the current start() exit.
C24_OneLiveWorker ==
    running => Cardinality(LiveWorkers) = 1

====
